---- MODULE Spec2Model ----
(***************************************************************************)
(* Session-state lifecycle of the judgement-insights page (src/app.py).    *)
(*                                                                         *)
(* The page is one script that is executed top to bottom once per user     *)
(* interaction ("render pass").  The state that survives between passes is *)
(* st.session_state plus the values held by the widgets.  Every action of  *)
(* this module is one user interaction followed by the whole render pass   *)
(* it triggers.  Values that live only inside a pass (api_key_to_use,      *)
(* gemini_model, summarize_button_disabled, the messages emitted) are kept *)
(* in variables holding what the last pass computed, so that properties    *)
(* "at the end of a render pass" are state predicates.                     *)
(*                                                                         *)
(* Strings whose content matters only through identity and length (the     *)
(* text of a PDF, a prompt body) are records [doc, len]: the first len     *)
(* characters of the character stream of document doc.                     *)
(***************************************************************************)
EXTENDS Integers, Sequences, FiniteSets, TLC

\* ------------------------------------------------------------------------
\* Values
\* ------------------------------------------------------------------------

\* Python None for string-valued fields (keys, file ids, error messages).
None == "None"

\* Python None for text-valued fields (pdf_text, summary, prompt body).
NoText == [kind |-> "None"]

\* A str holding the first n characters of document d.
Text(d, n) == [kind |-> "str", doc |-> d, len |-> n]

\* Python truthiness of an optional text: None and "" are falsy.
Truthy(t) == t # NoText /\ t.len > 0

\* len(t) for a text that is not None.
StrLen(t) == t.len

\* max_chars, the character cap of summarize_with_gemini.
max_chars == 100000

\* The "arbitrary short length" under which summarization is refused.
min_chars == 50

\* The uploads a user can make.  Each one has its own file_id.
Files == {"f_bad", "f_empty", "f_short", "f_ok", "f_cap", "f_long"}

\* What fitz yields for each upload: None when the bytes cannot be opened,
\* otherwise the concatenated page text, whose length is what matters here.
PageTextLen(f) ==
    CASE f = "f_empty" -> 0
      [] f = "f_short" -> min_chars - 1
      [] f = "f_ok"    -> min_chars
      [] f = "f_cap"   -> max_chars
      [] OTHER         -> max_chars + 1

\* Keys the user can type, "" being the cleared field.
UserKeys == {"", "k1", "k2"}

\* What st.secrets.get("GEMINI_API_KEY") can return for a deployment.
SecretKeys == {None, "", "ks"}

\* Outcomes of genai.configure + GenerativeModel: "ok" or the text of the
\* exception raised.
ConfigErrors == {"e1", "e2"}
ConfigOutcomes == {"ok"} \cup ConfigErrors

\* Outcomes of model.generate_content: a response with parts and text, a
\* response with parts whose text is empty, a response without parts
\* (blocked), or an exception.
Responses == {"text", "emptytext", "blocked", "error"}

\* Hearing dates are ordinals (date.toordinal() >= 1); 0 stands for an
\* empty date input.
NoDate == 0
Dates == {1, 2}
HearingSummaries == {"", "a"}

\* Dates the user picks in "Date of Judgement" and "Final Decision Date";
\* either field can also be left or made empty.
JudgementDates == {1}
DecisionDates == {2}

\* Bound on the number of stored hearings.
MaxHearings == 2

Min(a, b) == IF a <= b THEN a ELSE b

VARIABLES
    \* st.session_state
    pdf_text, summary, gemini_configured, gemini_error, user_gemini_key,
    uploaded_file_id, hearings, case_details, timeline,
    \* environment and widget values
    gemini_api_key_from_secrets, pdf_uploader,
    \* what the last render pass did
    loaded, api_key_to_use, gemini_model, config_attempt, config_exc,
    extraction_attempted, summarize_button_disabled, gen_branch, sum_result,
    prompt_body, truncation_notice, new_hearing_date, new_hearing_summary,
    hearing_msg, displayed, banners, timeline_decision_date,
    \* session state as it was when the last render pass started
    pre_summary, pre_configured

session == <<pdf_text, summary, gemini_configured, gemini_error,
             user_gemini_key, uploaded_file_id, hearings, case_details,
             timeline>>
widgets == <<gemini_api_key_from_secrets, pdf_uploader>>
passvars == <<loaded, api_key_to_use, gemini_model, config_attempt,
              config_exc, extraction_attempted, summarize_button_disabled,
              gen_branch, sum_result, prompt_body, truncation_notice,
              new_hearing_date, new_hearing_summary, hearing_msg, displayed,
              banners, timeline_decision_date>>
ghosts == <<pre_summary, pre_configured>>
vars == <<session, widgets, passvars, ghosts>>

\* ------------------------------------------------------------------------
\* Credential resolver and configure block (lines 51-99)
\* ------------------------------------------------------------------------

\* The resolver with the two branches of lines 55-62 in the other order.
ResolveKey_UserFirst(secret, ukey) ==
    IF ukey # "" THEN ukey
    ELSE IF secret # None /\ secret # "" THEN secret
    ELSE None

\* Lines 55-65: the key used in this pass; a str is truthy when non-empty.
ResolveKey(secret, ukey) ==
    IF secret # None /\ secret # "" THEN secret
    ELSE IF ukey # "" THEN ukey
    ELSE None

\* The resolver without the assignment of line 65.
ConfiguredAfterResolve_Kept(key, configured) ==
    configured

\* Line 65: with no key the configured flag is cleared.
ConfiguredAfterResolve(key, configured) ==
    IF key = None THEN FALSE ELSE configured

\* The first-configuration guard without the test of the stored error.
ShouldConfigure_IgnoreError(key, configured, error) ==
    key # None /\ ~configured

\* Line 69: guard of the first-configuration block.
ShouldConfigure(key, configured, error) ==
    key # None /\ ~configured /\ error = None

\* Line 86: guard of the re-configuration block.
ShouldReconfigure(key, configured) ==
    configured /\ key # None

\* Lines 70-83: the first-configuration block.
ConfigureResult(key, outcome) ==
    IF outcome = "ok"
    THEN [key |-> key, model |-> "model", configured |-> TRUE,
          error |-> None, attempt |-> "configure", exc |-> None]
    ELSE [key |-> key, model |-> None, configured |-> FALSE,
          error |-> outcome, attempt |-> "configure", exc |-> outcome]

\* The re-configuration block without the assignment of line 90.
ReconfigureResult_NoModel(key, configured, error, outcome) ==
    IF outcome = "ok"
    THEN [key |-> key, model |-> None, configured |-> configured,
          error |-> error, attempt |-> "reconfigure", exc |-> None]
    ELSE [key |-> key, model |-> None, configured |-> FALSE,
          error |-> outcome, attempt |-> "reconfigure", exc |-> outcome]

\* The re-configuration block without the assignment of line 93.
ReconfigureResult_ErrorOnly(key, configured, error, outcome) ==
    IF outcome = "ok"
    THEN [key |-> key, model |-> "model", configured |-> configured,
          error |-> error, attempt |-> "reconfigure", exc |-> None]
    ELSE [key |-> key, model |-> None, configured |-> configured,
          error |-> outcome, attempt |-> "reconfigure", exc |-> outcome]

\* The re-configuration block with an except branch that only reports.
ReconfigureResult_FlagKept(key, configured, error, outcome) ==
    IF outcome = "ok"
    THEN [key |-> key, model |-> "model", configured |-> configured,
          error |-> error, attempt |-> "reconfigure", exc |-> None]
    ELSE [key |-> key, model |-> None, configured |-> configured,
          error |-> error, attempt |-> "reconfigure", exc |-> outcome]

\* Lines 87-95: the re-configuration block.
ReconfigureResult(key, configured, error, outcome) ==
    IF outcome = "ok"
    THEN [key |-> key, model |-> "model", configured |-> configured,
          error |-> error, attempt |-> "reconfigure", exc |-> None]
    ELSE [key |-> key, model |-> None, configured |-> FALSE,
          error |-> outcome, attempt |-> "reconfigure", exc |-> outcome]

\* Lines 51-99 as a function of the session state and of what
\* genai.configure / GenerativeModel would do in this pass.
CredentialBlock(secret, ukey, configured0, error, outcome) ==
    LET key == ResolveKey(secret, ukey)
        configured == ConfiguredAfterResolve(key, configured0)
    IN  IF ShouldConfigure(key, configured, error)
        THEN ConfigureResult(key, outcome)
        ELSE IF ShouldReconfigure(key, configured)
        THEN ReconfigureResult(key, configured, error, outcome)
        ELSE [key |-> key, model |-> None, configured |-> configured,
              error |-> error, attempt |-> "none", exc |-> None]

\* ------------------------------------------------------------------------
\* File upload and text extraction (lines 104-132, 215-229)
\* ------------------------------------------------------------------------

\* Lines 109-115: on_change of the uploader, run before the pass when the
\* widget value changed; it resets the document state only on removal.
UploaderOnChange(upl, text, summ, fid) ==
    IF upl = None
    THEN [pdf_text |-> NoText, summary |-> NoText, uploaded_file_id |-> None]
    ELSE [pdf_text |-> text, summary |-> summ, uploaded_file_id |-> fid]

\* Lines 120-132: the text of all pages, or None when fitz raises.
extract_text_from_pdf(f) ==
    IF f = "f_bad" THEN NoText ELSE Text(f, PageTextLen(f))

\* The extraction guard without the comparison of file ids.
NeedsExtraction_NoIdCheck(upl, text, fid) ==
    text = NoText

\* Line 219: guard of the extraction block.
NeedsExtraction(upl, text, fid) ==
    text = NoText \/ upl # fid

\* The extraction block without the reset of line 224.
DocumentBlock_SummaryKept(upl, text, summ, fid) ==
    IF upl # None /\ NeedsExtraction(upl, text, fid)
    THEN [pdf_text |-> extract_text_from_pdf(upl), summary |-> summ,
          uploaded_file_id |-> upl, attempted |-> TRUE]
    ELSE [pdf_text |-> text, summary |-> summ, uploaded_file_id |-> fid,
          attempted |-> FALSE]

\* Lines 215-229: the document state after the extraction block.
DocumentBlock(upl, text, summ, fid) ==
    IF upl # None /\ NeedsExtraction(upl, text, fid)
    THEN [pdf_text |-> extract_text_from_pdf(upl), summary |-> NoText,
          uploaded_file_id |-> upl, attempted |-> TRUE]
    ELSE [pdf_text |-> text, summary |-> summ, uploaded_file_id |-> fid,
          attempted |-> FALSE]

\* ------------------------------------------------------------------------
\* Summarizer (lines 134-208) and the Generate button (lines 250-269)
\* ------------------------------------------------------------------------

\* The prompt body without the slice of line 148.
Truncate_Whole(t) == t

\* Line 148: text_to_summarize[:max_chars].
Truncate(t) == Text(t.doc, Min(StrLen(t), max_chars))

\* Line 149: whether the truncation notice is emitted.
TruncationNotice(t) == StrLen(t) > max_chars

\* response.text of a response generated from the prompt body b.
ResponseText(b, resp) ==
    [kind |-> "str", of |-> b.doc, len |-> IF resp = "text" THEN 1 ELSE 0]

\* The insufficient-input guard with the threshold one too low.
TooShort_OffByOne(t) == ~Truthy(t) \/ StrLen(t) < min_chars - 1

\* Line 141: the insufficient-input guard.
TooShort(t) == ~Truthy(t) \/ StrLen(t) < min_chars

\* Lines 134-208.  result is the returned value, prompt the text embedded
\* in the prompt passed to generate_content (None when it is not called).
summarize_with_gemini(t, model, configured, resp) ==
    IF ~configured \/ model = None THEN
        [result |-> NoText, outcome |-> "not_configured", prompt |-> NoText,
         notice |-> FALSE]
    ELSE IF TooShort(t) THEN
        [result |-> NoText, outcome |-> "insufficient", prompt |-> NoText,
         notice |-> FALSE]
    ELSE LET b == Truncate(t) IN
        [result  |-> IF resp \in {"text", "emptytext"}
                     THEN ResponseText(b, resp) ELSE NoText,
         outcome |-> IF resp \in {"text", "emptytext"} THEN "returned"
                     ELSE resp,
         prompt  |-> b,
         notice  |-> TruncationNotice(t)]

\* Line 251.
SummarizeButtonDisabled(configured, text) ==
    ~configured \/ ~Truthy(text)

\* The handler with the assignment commented out at line 264 in force.
GenerateHandler_ClearOnFailure(clicked, model, configured, text, summ, resp) ==
    IF ~clicked THEN
        [summary |-> summ, branch |-> "none", outcome |-> "none",
         prompt |-> NoText, notice |-> FALSE]
    ELSE IF model # None /\ Truthy(text) THEN
        LET r == summarize_with_gemini(text, model, configured, resp) IN
        [summary |-> IF Truthy(r.result) THEN r.result ELSE NoText,
         branch |-> "summarize", outcome |-> r.outcome,
         prompt |-> r.prompt, notice |-> r.notice]
    ELSE IF ~Truthy(text) THEN
        [summary |-> summ, branch |-> "text_missing", outcome |-> "none",
         prompt |-> NoText, notice |-> FALSE]
    ELSE
        [summary |-> summ, branch |-> "config_issue", outcome |-> "none",
         prompt |-> NoText, notice |-> FALSE]

\* Lines 254-269: the handler of the Generate button.
GenerateHandler(clicked, model, configured, text, summ, resp) ==
    IF ~clicked THEN
        [summary |-> summ, branch |-> "none", outcome |-> "none",
         prompt |-> NoText, notice |-> FALSE]
    ELSE IF model # None /\ Truthy(text) THEN
        LET r == summarize_with_gemini(text, model, configured, resp) IN
        [summary |-> IF Truthy(r.result) THEN r.result ELSE summ,
         branch |-> "summarize", outcome |-> r.outcome,
         prompt |-> r.prompt, notice |-> r.notice]
    ELSE IF ~Truthy(text) THEN
        [summary |-> summ, branch |-> "text_missing", outcome |-> "none",
         prompt |-> NoText, notice |-> FALSE]
    ELSE
        [summary |-> summ, branch |-> "config_issue", outcome |-> "none",
         prompt |-> NoText, notice |-> FALSE]

\* The summary section with every branch of lines 273-285 an independent if.
SummaryBanners_IndependentIfs(summ, disabled, error, text, upl) ==
    (IF Truthy(summ) THEN {"summary"} ELSE {})
    \cup (IF disabled /\ error # None THEN {"config_error"} ELSE {})
    \cup (IF disabled /\ ~Truthy(text) /\ upl # None
          THEN {"extraction_failed"} ELSE {})
    \cup (IF disabled THEN {"configure_prompt"} ELSE {})
    \cup (IF ~disabled /\ ~Truthy(summ) THEN {"click_prompt"} ELSE {})

\* Lines 272-285: the messages of the if / elif chain under the button.
SummaryBanners(summ, disabled, error, text, upl) ==
    IF Truthy(summ) THEN {"summary"}
    ELSE IF disabled /\ error # None THEN {"config_error"}
    ELSE IF disabled /\ ~Truthy(text) /\ upl # None
    THEN {"extraction_failed"}
    ELSE IF disabled THEN {"configure_prompt"}
    ELSE IF ~disabled /\ ~Truthy(summ) THEN {"click_prompt"}
    ELSE {}

\* ------------------------------------------------------------------------
\* Manual entry: case details and timeline (lines 288-305)
\* ------------------------------------------------------------------------

\* dict.get(k, default): the default is used only when the key is missing.
DictGet(dct, k, default) ==
    IF k \in DOMAIN dct THEN dct[k] ELSE default

\* Lines 301-302: the value offered in "Final Decision Date", computed
\* after line 295 stored the judgement date jd of this pass.
DecisionDateOffered(tl, jd) ==
    LET default_decision_date == jd
    IN  DictGet(tl, "decision_date", default_decision_date)

\* Lines 290-305 for a pass whose two date inputs hold jd and dd.
ManualEntry(tl, jd, dd) ==
    [case_details |-> [judgement_date |-> jd],
     offered      |-> DecisionDateOffered(tl, jd),
     timeline     |-> [decision_date |-> dd]]

\* The no-file branch with the resets of lines 358-360 in force.
NoFileBranch_Reset(hs, cd, tl) ==
    [hearings |-> <<>>,
     case_details |-> [judgement_date |-> NoDate],
     timeline |-> [decision_date |-> NoDate]]

\* Lines 352-360: without a file the manual entries are neither rendered
\* nor reset.
NoFileBranch(hs, cd, tl) ==
    [hearings |-> hs, case_details |-> cd, timeline |-> tl]

\* ------------------------------------------------------------------------
\* Hearing summaries (lines 308-342)
\* ------------------------------------------------------------------------

\* The input check with the summary test left out.
HearingInputOk_DateOnly(d, txt) == d # NoDate

\* Line 315: both inputs are truthy.
HearingInputOk(d, txt) == d # NoDate /\ txt # ""

\* Lines 314-324: the handler of the Add Hearing Summary button.
AddHearingHandler(clicked, d, txt, hs) ==
    IF ~clicked THEN [hearings |-> hs, msg |-> "none"]
    ELSE IF HearingInputOk(d, txt)
    THEN [hearings |-> Append(hs, [date |-> d, summary |-> txt]),
          msg |-> "success"]
    ELSE [hearings |-> hs, msg |-> "warning"]

\* Line 332: the records that have a truthy date.
valid_hearings(hs) == SelectSeq(hs, LAMBDA h : h.date # NoDate)

\* Insertion of h into a list sorted by date, after the records whose date
\* is not greater (sorted() is stable).
RECURSIVE InsertByDate(_, _)
InsertByDate(h, sq) ==
    IF sq = <<>> THEN <<h>>
    ELSE IF h.date < Head(sq).date THEN <<h>> \o sq
    ELSE <<Head(sq)>> \o InsertByDate(h, Tail(sq))

\* Line 333: sorted(valid_hearings, key=lambda x: x['date']).
RECURSIVE sorted_hearings(_)
sorted_hearings(sq) ==
    IF sq = <<>> THEN <<>>
    ELSE InsertByDate(sq[Len(sq)], sorted_hearings(SubSeq(sq, 1, Len(sq) - 1)))

\* The display without the sort of line 333.
DisplayHearings_Unsorted(hs) == valid_hearings(hs)

\* Lines 326-342: the list shown under "Recorded Hearings".
DisplayHearings(hs) == sorted_hearings(valid_hearings(hs))

\* ------------------------------------------------------------------------
\* The render pass
\* ------------------------------------------------------------------------

\* One execution of the script: ukey and upl are the widget values it
\* reads, doc0 the document state left by the uploader's on_change,
\* clickGen / clickAdd the buttons pressed, d and txt the hearing inputs
\* read by the Add handler (empty when it does not run), cfg and resp what
\* the Gemini SDK does when called, jd and dd the values held by the
\* "Date of Judgement" and "Final Decision Date" inputs.
RenderPass(ukey, upl, doc0, clickGen, clickAdd, d, txt, cfg, resp, jd, dd) ==
    LET cred == CredentialBlock(gemini_api_key_from_secrets, ukey,
                                gemini_configured, gemini_error, cfg)
        doc  == DocumentBlock(upl, doc0.pdf_text, doc0.summary,
                              doc0.uploaded_file_id)
        gen  == GenerateHandler(clickGen, cred.model, cred.configured,
                                doc.pdf_text, doc.summary, resp)
        add  == AddHearingHandler(clickAdd, d, txt, hearings)
        man  == ManualEntry(timeline, jd, dd)
        nof  == NoFileBranch(hearings, case_details, timeline)
    IN  /\ user_gemini_key' = ukey
        /\ pdf_uploader' = upl
        /\ UNCHANGED gemini_api_key_from_secrets
        /\ api_key_to_use' = cred.key
        /\ gemini_model' = cred.model
        /\ gemini_configured' = cred.configured
        /\ gemini_error' = cred.error
        /\ config_attempt' = cred.attempt
        /\ config_exc' = cred.exc
        /\ pdf_text' = doc.pdf_text
        /\ uploaded_file_id' = doc.uploaded_file_id
        /\ extraction_attempted' = doc.attempted
        /\ loaded' = TRUE
        /\ pre_summary' = summary
        /\ pre_configured' = gemini_configured
        /\ IF upl # None
           THEN /\ summarize_button_disabled' =
                       SummarizeButtonDisabled(cred.configured, doc.pdf_text)
                /\ summary' = gen.summary
                /\ gen_branch' = gen.branch
                /\ sum_result' = gen.outcome
                /\ prompt_body' = gen.prompt
                /\ truncation_notice' = gen.notice
                /\ hearings' = add.hearings
                /\ case_details' = man.case_details
                /\ timeline_decision_date' = man.offered
                /\ timeline' = man.timeline
                /\ hearing_msg' = add.msg
                /\ new_hearing_date' = d
                /\ new_hearing_summary' = txt
                /\ displayed' = DisplayHearings(add.hearings)
                /\ banners' = SummaryBanners(gen.summary,
                       SummarizeButtonDisabled(cred.configured, doc.pdf_text),
                       cred.error, doc.pdf_text, upl)
           ELSE \* lines 352-353: nothing but the upload prompt is rendered
                /\ summarize_button_disabled' = TRUE
                /\ summary' = doc.summary
                /\ gen_branch' = "none"
                /\ sum_result' = "none"
                /\ prompt_body' = NoText
                /\ truncation_notice' = FALSE
                /\ hearings' = nof.hearings
                /\ case_details' = nof.case_details
                /\ timeline_decision_date' = NoDate
                /\ timeline' = nof.timeline
                /\ hearing_msg' = "none"
                /\ new_hearing_date' = NoDate
                /\ new_hearing_summary' = ""
                /\ displayed' = <<>>
                /\ banners' = {"upload_prompt"}

\* What the Gemini SDK can do in a pass that reads the key field as ukey:
\* it is called only when one of the two configuration blocks is entered.
ConfigChoices(ukey) ==
    IF CredentialBlock(gemini_api_key_from_secrets, ukey, gemini_configured,
                       gemini_error, "ok").attempt = "none"
    THEN {"ok"} ELSE ConfigOutcomes

\* The document state when the uploader did not change.
CurrentDoc ==
    [pdf_text |-> pdf_text, summary |-> summary,
     uploaded_file_id |-> uploaded_file_id]

\* Lines 15-28: the defaults of a new session, before the first pass.
Init ==
    /\ pdf_text = NoText
    /\ summary = NoText
    /\ gemini_configured = FALSE
    /\ gemini_error = None
    /\ user_gemini_key = ""
    /\ uploaded_file_id = None
    /\ hearings = <<>>
    /\ case_details = [judgement_date |-> NoDate]
    /\ timeline = [decision_date |-> NoDate]
    /\ gemini_api_key_from_secrets \in SecretKeys
    /\ pdf_uploader = None
    /\ loaded = FALSE
    /\ api_key_to_use = None
    /\ gemini_model = None
    /\ config_attempt = "none"
    /\ config_exc = None
    /\ extraction_attempted = FALSE
    /\ summarize_button_disabled = TRUE
    /\ gen_branch = "none"
    /\ sum_result = "none"
    /\ prompt_body = NoText
    /\ truncation_notice = FALSE
    /\ hearing_msg = "none"
    /\ new_hearing_date = NoDate
    /\ new_hearing_summary = ""
    /\ displayed = <<>>
    /\ banners = {}
    /\ timeline_decision_date = NoDate
    /\ pre_summary = NoText
    /\ pre_configured = FALSE

\* The page is loaded: the first execution of the script.
FirstRun ==
    /\ ~loaded
    /\ \E cfg \in ConfigChoices(user_gemini_key) :
         RenderPass(user_gemini_key, pdf_uploader, CurrentDoc,
                    FALSE, FALSE, NoDate, "", cfg, "text",
                    case_details.judgement_date, timeline.decision_date)

\* An interaction that changes no widget the session state depends on
\* (typing in the hearing inputs, opening an expander).
Rerun ==
    /\ loaded
    /\ \E cfg \in ConfigChoices(user_gemini_key) :
         RenderPass(user_gemini_key, pdf_uploader, CurrentDoc,
                    FALSE, FALSE, NoDate, "", cfg, "text",
                    case_details.judgement_date, timeline.decision_date)

\* Lines 43-49: the user changes the key field.
EditKey ==
    /\ loaded
    /\ \E k \in UserKeys \ {user_gemini_key} : \E cfg \in ConfigChoices(k) :
         RenderPass(k, pdf_uploader, CurrentDoc,
                    FALSE, FALSE, NoDate, "", cfg, "text",
                    case_details.judgement_date, timeline.decision_date)

\* Lines 104-116: a file is uploaded into the empty uploader.
UploadFile ==
    /\ loaded
    /\ pdf_uploader = None
    /\ \E f \in Files, cfg \in ConfigChoices(user_gemini_key) :
         RenderPass(user_gemini_key, f,
                    UploaderOnChange(f, pdf_text, summary, uploaded_file_id),
                    FALSE, FALSE, NoDate, "", cfg, "text",
                    case_details.judgement_date, timeline.decision_date)

\* Lines 104-116: the uploaded file is replaced by another one.
ReplaceFile ==
    /\ loaded
    /\ pdf_uploader # None
    /\ \E f \in Files \ {pdf_uploader}, cfg \in ConfigChoices(user_gemini_key) :
         RenderPass(user_gemini_key, f,
                    UploaderOnChange(f, pdf_text, summary, uploaded_file_id),
                    FALSE, FALSE, NoDate, "", cfg, "text",
                    case_details.judgement_date, timeline.decision_date)

\* Lines 104-116: the uploaded file is removed.
RemoveFile ==
    /\ loaded
    /\ pdf_uploader # None
    /\ \E cfg \in ConfigChoices(user_gemini_key) :
         RenderPass(user_gemini_key, None,
                    UploaderOnChange(None, pdf_text, summary,
                                     uploaded_file_id),
                    FALSE, FALSE, NoDate, "", cfg, "text",
                    case_details.judgement_date, timeline.decision_date)

\* Line 254: the Generate button, enabled in the page on screen, is clicked.
ClickGenerate ==
    /\ loaded
    /\ pdf_uploader # None
    /\ ~summarize_button_disabled
    /\ \E cfg \in ConfigChoices(user_gemini_key), resp \in Responses :
         RenderPass(user_gemini_key, pdf_uploader, CurrentDoc,
                    TRUE, FALSE, NoDate, "", cfg, resp,
                    case_details.judgement_date, timeline.decision_date)

\* Line 314: the Add Hearing Summary button is clicked.
ClickAddHearing ==
    /\ loaded
    /\ pdf_uploader # None
    /\ \E d \in Dates \cup {NoDate}, txt \in HearingSummaries,
          cfg \in ConfigChoices(user_gemini_key) :
         /\ HearingInputOk(d, txt) => Len(hearings) < MaxHearings
         /\ RenderPass(user_gemini_key, pdf_uploader,
                       CurrentDoc, FALSE, TRUE, d, txt, cfg, "text",
                       case_details.judgement_date, timeline.decision_date)

\* Line 295: the user picks or clears the date of judgement.
EditJudgementDate ==
    /\ loaded
    /\ pdf_uploader # None
    /\ \E jd \in (JudgementDates \cup {NoDate})
                  \ {case_details.judgement_date},
          cfg \in ConfigChoices(user_gemini_key) :
         RenderPass(user_gemini_key, pdf_uploader, CurrentDoc,
                    FALSE, FALSE, NoDate, "", cfg, "text",
                    jd, timeline.decision_date)

\* Line 305: the user picks or clears the final decision date.
EditDecisionDate ==
    /\ loaded
    /\ pdf_uploader # None
    /\ \E dd \in (DecisionDates \cup {NoDate}) \ {timeline.decision_date},
          cfg \in ConfigChoices(user_gemini_key) :
         RenderPass(user_gemini_key, pdf_uploader, CurrentDoc,
                    FALSE, FALSE, NoDate, "", cfg, "text",
                    case_details.judgement_date, dd)

Next ==
    \/ FirstRun
    \/ Rerun
    \/ EditKey
    \/ UploadFile
    \/ ReplaceFile
    \/ RemoveFile
    \/ ClickGenerate
    \/ ClickAddHearing

Spec == Init /\ [][Next]_vars

\* The sessions in which the user fills in the manual-entry dates and
\* leaves the key field alone: the key, if any, is the deployment's.
NextForms ==
    \/ FirstRun
    \/ Rerun
    \/ UploadFile
    \/ ReplaceFile
    \/ RemoveFile
    \/ ClickGenerate
    \/ ClickAddHearing
    \/ EditJudgementDate
    \/ EditDecisionDate

SpecForms == Init /\ [][NextForms]_vars

\* ------------------------------------------------------------------------
\* Properties
\* ------------------------------------------------------------------------

\* C1: a render pass that sees an uploaded file whose identity differs from
\* the stored uploaded_file_id, or that follows the removal of the file,
\* ends with summary absent and with pdf_text either absent or the text of
\* the file now uploaded, never the previous file's text or summary.
C1_FileChangeDiscards ==
    [][ /\ (pdf_uploader' # None /\ pdf_uploader' # uploaded_file_id) =>
              /\ summary' = NoText
              /\ pdf_text' = NoText \/ pdf_text'.doc = pdf_uploader'
        /\ (pdf_uploader # None /\ pdf_uploader' = None) =>
              /\ summary' = NoText
              /\ pdf_text' = NoText
      ]_vars

\* A file replaced another one whose summary was stored; the summary is
\* gone and the text is the new file's.
C1_Witness ==
    /\ pdf_uploader # None
    /\ pre_summary # NoText
    /\ pre_summary.of # pdf_uploader
    /\ summary = NoText
    /\ pdf_text # NoText
    /\ pdf_text.doc = pdf_uploader

\* C2: a render pass whose uploaded file has the identity already stored in
\* uploaded_file_id does not attempt extraction again, also when the one
\* attempt made for that file failed.
C2_NoReExtraction ==
    [][ (pdf_uploader' # None /\ pdf_uploader' = uploaded_file_id) =>
            ~extraction_attempted' ]_vars

\* C3: once a configuration failure is recorded, a pass in which the user
\* supplies a new key attempts configuration again.
C3_NewKeyRetries ==
    [][ ( /\ gemini_error # None
          /\ api_key_to_use' # None
          /\ api_key_to_use' # api_key_to_use ) =>
            config_attempt' # "none" ]_vars

\* Behind C3: a stored configuration error is never cleared or replaced, no
\* later pass attempts configuration and gemini_configured stays false.
ErrorNeverCleared ==
    [][ gemini_error # None =>
            /\ gemini_error' = gemini_error
            /\ config_attempt' = "none"
            /\ ~gemini_configured' ]_vars

\* C4: while a configuration error is stored, a render pass in which the
\* key in use is unchanged neither clears nor replaces the stored message
\* and does not attempt configuration.
C4_ErrorPersists ==
    [][ (gemini_error # None /\ api_key_to_use' = api_key_to_use) =>
            (gemini_error' = gemini_error /\ config_attempt' = "none") ]_vars

\* The deployment's secret key is the key in use in every pass; a pass ran
\* with the error of an earlier pass stored and made no attempt.
C4_Witness ==
    /\ gemini_api_key_from_secrets = "ks"
    /\ api_key_to_use = "ks"
    /\ gemini_error # None
    /\ config_exc = None
    /\ config_attempt = "none"

\* C5: after a render pass with no key in the secret store and an empty key
\* field, gemini_configured is false and the Generate button, when
\* rendered, is disabled, whatever the earlier passes left.
C5_NoKeyNotConfigured ==
    ( /\ loaded
      /\ gemini_api_key_from_secrets \in {None, ""}
      /\ user_gemini_key = "" ) =>
        /\ ~gemini_configured
        /\ pdf_uploader # None => summarize_button_disabled

\* The key field was cleared in a configured session with extracted text.
C5_Witness ==
    /\ loaded
    /\ gemini_api_key_from_secrets = None
    /\ user_gemini_key = ""
    /\ pre_configured
    /\ ~gemini_configured
    /\ pdf_uploader # None
    /\ Truthy(pdf_text)
    /\ summarize_button_disabled

\* C6: at the end of a render pass gemini_configured holds only if a
\* configuration or re-configuration call succeeded in that pass, and a
\* pass in which such a call failed ends with gemini_configured false and
\* gemini_error equal to the message of that failure.
C6_ConfiguredOnlyAfterSuccess ==
    /\ gemini_configured => (config_attempt # "none" /\ config_exc = None)
    /\ config_exc # None => (~gemini_configured /\ gemini_error = config_exc)

\* The re-configuration of a configured session failed.
C6_Witness ==
    /\ config_attempt = "reconfigure"
    /\ config_exc # None
    /\ pre_configured
    /\ ~gemini_configured
    /\ gemini_error = config_exc

\* C7: a click on Add Hearing Summary with an empty date or an empty
\* summary leaves the stored hearings as they are and warns; with both
\* present it appends the record {date, summary} at the end and changes no
\* stored record.
C7_AddHearing ==
    [][ hearing_msg' # "none" =>
          IF new_hearing_date' = NoDate \/ new_hearing_summary' = ""
          THEN /\ hearings' = hearings
               /\ hearing_msg' = "warning"
          ELSE /\ Len(hearings') = Len(hearings) + 1
               /\ SubSeq(hearings', 1, Len(hearings)) = hearings
               /\ hearings'[Len(hearings')] =
                      [date |-> new_hearing_date',
                       summary |-> new_hearing_summary']
               /\ hearing_msg' = "success"
      ]_vars

\* A click with a date but no summary was refused while a hearing is stored.
C7_Witness ==
    /\ hearing_msg = "warning"
    /\ new_hearing_date # NoDate
    /\ new_hearing_summary = ""
    /\ hearings # <<>>

\* The number of positions of sq holding r.
Count(sq, r) == Cardinality({i \in DOMAIN sq : sq[i] = r})

\* The displayed list holds exactly the stored records that have a date.
DisplayedAreValid ==
    /\ \A i \in DOMAIN displayed : displayed[i].date # NoDate
    /\ \A i \in DOMAIN hearings :
          hearings[i].date # NoDate =>
             Count(displayed, hearings[i]) = Count(hearings, hearings[i])
    /\ \A i \in DOMAIN displayed :
          Count(displayed, displayed[i]) = Count(hearings, displayed[i])

\* C8 as stated: the displayed list holds the stored records that have a
\* date, and each consecutive displayed pair has strictly increasing dates.
C8_StrictlyAscending ==
    pdf_uploader # None =>
        /\ DisplayedAreValid
        /\ \A i \in 1..(Len(displayed) - 1) :
              displayed[i].date < displayed[i + 1].date

\* C8 as amended: the displayed list holds the stored records that have a
\* date, in non-decreasing order of date (hearings sharing a date are all
\* shown), and a pass without an accepted Add click leaves the stored
\* sequence as it was.
C8_Ascending ==
    [][ /\ pdf_uploader' # None =>
              /\ DisplayedAreValid'
              /\ \A i \in 1..(Len(displayed') - 1) :
                    displayed'[i].date <= displayed'[i + 1].date
        /\ hearing_msg' # "success" => hearings' = hearings
      ]_vars

\* The stored order differs from the displayed one.
C8_Witness ==
    /\ pdf_uploader # None
    /\ Len(displayed) = 2
    /\ Len(hearings) = 2
    /\ hearings[1].date > hearings[2].date
    /\ displayed[1] = hearings[2]
    /\ displayed[2] = hearings[1]

\* C9: a Generate click with a usable client on extracted text shorter than
\* min_chars ends in the insufficient-input failure, sends no prompt to the
\* model and leaves the stored summary as it was.
C9_ShortTextNoOp ==
    [][ ( /\ gen_branch' # "none"
          /\ gemini_configured'
          /\ gemini_model' # None
          /\ pdf_text' # NoText
          /\ StrLen(pdf_text') < min_chars ) =>
            /\ sum_result' = "insufficient"
            /\ prompt_body' = NoText
            /\ summary' = summary
      ]_vars

\* The summarizer refused a text one character under the threshold.
C9_Witness ==
    /\ gen_branch = "summarize"
    /\ sum_result = "insufficient"
    /\ gemini_configured
    /\ pdf_text # NoText
    /\ StrLen(pdf_text) = min_chars - 1
    /\ prompt_body = NoText

\* C10: whenever a prompt is sent, its body is the first max_chars
\* characters of the input and the truncation notice is emitted if the input
\* is longer than max_chars; otherwise the body is the whole input and no
\* notice is emitted.
C10_Truncation ==
    prompt_body # NoText =>
        /\ pdf_text # NoText
        /\ prompt_body.doc = pdf_text.doc
        /\ IF StrLen(pdf_text) > max_chars
           THEN prompt_body.len = max_chars /\ truncation_notice
           ELSE prompt_body.len = StrLen(pdf_text) /\ ~truncation_notice

\* A text one character over the cap was summarized.
C10_Witness ==
    /\ prompt_body # NoText
    /\ StrLen(pdf_text) = max_chars + 1
    /\ prompt_body.len = max_chars
    /\ truncation_notice

\* C12: a Generate click whose summarization fails (not configured,
\* insufficient input, blocked, remote error) leaves the stored summary as
\* it was; the summary changes only to the non-empty text of a response
\* generated from the current pdf_text.
C12_FailureKeepsSummary ==
    [][ gen_branch' # "none" =>
          /\ sum_result' # "returned" => summary' = summary
          /\ summary' # summary =>
                /\ gen_branch' = "summarize"
                /\ sum_result' = "returned"
                /\ summary' = ResponseText(prompt_body', "text")
                /\ prompt_body'.doc = pdf_text'.doc
      ]_vars

\* A request was blocked or raised while a summary was stored; the summary
\* is still there.
C12_Witness ==
    /\ gen_branch = "summarize"
    /\ sum_result \in {"blocked", "error"}
    /\ pre_summary # NoText
    /\ summary = pre_summary

\* The banner the summary section is to show, from the four conditions.
ExpectedBanner(extracted, configured, error, present) ==
    IF present THEN "summary"
    ELSE IF configured /\ extracted THEN "click_prompt"
    ELSE IF error THEN "config_error"
    ELSE IF ~extracted THEN "extraction_failed"
    ELSE "configure_prompt"

\* C13: with a file uploaded exactly one banner of the summary section is
\* shown, determined by {text extracted, model configured, stored error,
\* summary present}; with no file only the upload prompt is shown.
C13_OneBanner ==
    loaded =>
        IF pdf_uploader # None
        THEN banners = {ExpectedBanner(Truthy(pdf_text), gemini_configured,
                                       gemini_error # None, Truthy(summary))}
        ELSE banners = {"upload_prompt"}

\* The summary is shown although a configuration error is stored and the
\* button is disabled.
C13_Witness ==
    /\ pdf_uploader # None
    /\ banners = {"summary"}
    /\ gemini_error # None
    /\ summarize_button_disabled

C15_SummaryOfCurrentFile ==
    summary # NoText =>
        /\ Truthy(summary)
        /\ Truthy(pdf_text)
        /\ summary.of = pdf_text.doc
        /\ pdf_text.doc = uploaded_file_id
        /\ uploaded_file_id = pdf_uploader

\* A summary generated in an earlier pass is kept next to its file by a pass
\* that handles no Generate click.
C15_Witness ==
    /\ summary # NoText
    /\ pre_summary = summary
    /\ gen_branch = "none"
    /\ summary.of = pdf_uploader

C17_ConfiguredExcludesError ==
    gemini_configured => gemini_error = None

\* A configured session lost its flag when re-configuration failed, and a
\* later pass holds the error.
C17_Witness ==
    /\ gemini_error # None
    /\ ~gemini_configured
    /\ config_attempt = "none"
    /\ api_key_to_use # None
    /\ pdf_uploader # None
    /\ Truthy(summary)

\* C11: in a pass that renders the timeline, the value offered for "Final
\* Decision Date" is judgement_date when timeline.decision_date is unset
\* and judgement_date is set, and the user's decision date once it is set.
C11_DecisionDateDefault ==
    [][ pdf_uploader' # None =>
          IF timeline.decision_date = NoDate
          THEN case_details'.judgement_date # NoDate =>
                  timeline_decision_date' = case_details'.judgement_date
          ELSE timeline_decision_date' = timeline.decision_date
      ]_vars

\* The steps of file handling, extraction, summarization and credential
\* configuration: every pass not triggered by a manual-entry widget.
DocumentOrCredentialStep ==
    \/ FirstRun
    \/ Rerun
    \/ UploadFile
    \/ ReplaceFile
    \/ RemoveFile
    \/ ClickGenerate

\* C18: upload, replacement and removal of the file, extraction,
\* summarization and credential configuration leave case_details, timeline
\* and hearings as they are, and no step does anything to hearings but
\* append one record at its end.
C18_ManualEntriesKept ==
    [][ /\ DocumentOrCredentialStep =>
              UNCHANGED <<case_details, timeline, hearings>>
        /\ \/ hearings' = hearings
           \/ /\ Len(hearings') = Len(hearings) + 1
              /\ SubSeq(hearings', 1, Len(hearings)) = hearings
      ]_vars

\* The file was removed and replaced by another one; the hearings and the
\* dates entered before are still stored.
C18_Witness ==
    /\ loaded
    /\ pdf_uploader # None
    /\ extraction_attempted
    /\ hearings # <<>>
    /\ hearing_msg = "none"
    /\ case_details.judgement_date # NoDate
    /\ timeline.decision_date # NoDate

====
